---------------------------- MODULE Spec2Model ----------------------------
(***************************************************************************)
(* Export resolution of the Enso compiler (class ExportsResolution):       *)
(* buildGraph, findCycles, topsort, resolveExports, resolveExportedSymbols *)
(* and the two entry points run and runSort.                               *)
(*                                                                         *)
(* One behaviour is one call of run or runSort on an input drawn in Init.  *)
(* Where the code iterates a hash map (nodes.values, degrees.find,         *)
(* groupBy(...).toList, exports.foreach) the order is whatever the hash    *)
(* codes give, so the model takes every order.                             *)
(***************************************************************************)
EXTENDS Integers, Sequences, FiniteSets, TLC

VARIABLES
  mode,        \* "run" or "runSort": the entry point that was called
  modules,     \* the argument: a list of modules
  bindings,    \* module -> its bindings map (or null)
  invalidated, \* modules on which updateModule(invalidateCache, ...) ran
  pc,          \* position in run / runSort
  nodes,       \* buildGraph: target -> Node (the mutable.Map `nodes`)
  cycles,      \* result of findCycles
  degrees,     \* topsort: the mutable.Map `degrees`
  result,      \* topsort: the list `result` (most recent first)
  tops,        \* result of topsort
  exports,     \* resolveExports: the mutable.Map `exports`
  idx,         \* resolveExports: number of nodes of `tops` already processed
  outcome,     \* what the call returned or threw
  killer,      \* the actor RuntimeKiller and what surrounds it
  handler      \* the actor OpenFileHandler and what surrounds it

vars == <<mode, modules, bindings, invalidated, pc, nodes, cycles, degrees,
          result, tops, exports, idx, outcome>>

----------------------------------------------------------------------------
(* Bounds of the model *)

\* most export declarations in one module
MaxExports == 2
\* most export declarations in all modules together
MaxDecls == 3
\* longest input list
MaxModules == 3
\* most requesters that send ShutDownRuntime to one RuntimeKiller
MaxRequesters == 2
\* most requests that are sent to one OpenFileHandler
MaxRequests == 2

----------------------------------------------------------------------------
(* Generic list helpers, computed as the Scala collection methods do *)

\* the empty Map
EmptyMap == [k \in {} |-> <<>>]

\* Option: None is <<>>, Some(x) is <<x>>
None == <<>>
Some(x) == <<x>>

RECURSIVE Reverse(_)
Reverse(s) == IF s = <<>> THEN <<>> ELSE Reverse(Tail(s)) \o <<Head(s)>>

Contains(s, x) == \E i \in 1..Len(s) : s[i] = x

\* s with the first occurrence of x removed
RECURSIVE RemoveFirst(_, _)
RemoveFirst(s, x) ==
  IF s = <<>> THEN <<>>
  ELSE IF Head(s) = x THEN Tail(s)
  ELSE <<Head(s)>> \o RemoveFirst(Tail(s), x)

\* List.intersect: the multiset intersection, in the order of xs
RECURSIVE Intersect(_, _)
Intersect(xs, ys) ==
  IF xs = <<>> THEN <<>>
  ELSE IF Contains(ys, Head(xs))
       THEN <<Head(xs)>> \o Intersect(Tail(xs), RemoveFirst(ys, Head(xs)))
       ELSE Intersect(Tail(xs), ys)

\* List.distinct: first occurrences, in order
RECURSIVE DistinctFrom(_, _)
DistinctFrom(s, seen) ==
  IF s = <<>> THEN <<>>
  ELSE IF Head(s) \in seen THEN DistinctFrom(Tail(s), seen)
  ELSE <<Head(s)>> \o DistinctFrom(Tail(s), seen \cup {Head(s)})

Distinct(s) == DistinctFrom(s, {})

\* foldLeft(List())(_ ++ _) over a list of lists
RECURSIVE Flatten(_)
Flatten(ss) == IF ss = <<>> THEN <<>> ELSE Head(ss) \o Flatten(Tail(ss))

Range(s) == {s[i] : i \in 1..Len(s)}

\* the lists that hold every element of S exactly once
Orderings(S) ==
  {s \in [1..Cardinality(S) -> S] : \A i, j \in 1..Cardinality(S) : s[i] = s[j] => i = j}

----------------------------------------------------------------------------
(* Data: import targets, export records, nodes and edges *)

Modules == {"A", "B", "C"}

\* ResolvedModule(Concrete(m)); the module's own name is its last segment
ResolvedModule(m) == [kind |-> "module", module |-> m, name |-> m]
\* ResolvedType(module, type)
ResolvedType(m, n) == [kind |-> "type", module |-> m, name |-> n]

\* the targets an export declaration of the inputs can name:
\* the three modules and the type T defined in module A
Targets == {ResolvedModule(m) : m \in Modules} \cup {ResolvedType("A", "T")}

ExportedModule(target, exportedAs, symbols) ==
  [target |-> target, exportedAs |-> exportedAs, symbols |-> symbols]

Node(target) == [target |-> target, exports |-> <<>>, exportedBy |-> <<>>]

Edge(exporter, symbols, exportsAs, exportee) ==
  [exporter |-> exporter, symbols |-> symbols, exportsAs |-> exportsAs,
   exportee |-> exportee]

\* a module's bindings map; isNull stands for module.getBindingsMap() == null
BindingsMap(decls, entities, private) ==
  [isNull |-> FALSE, declared |-> decls, definedEntities |-> entities,
   isPrivate |-> private, resolvedExports |-> <<>>, exportedSymbols |-> EmptyMap]

NullBindings ==
  [isNull |-> TRUE, declared |-> <<>>, definedEntities |-> <<>>,
   isPrivate |-> FALSE, resolvedExports |-> <<>>, exportedSymbols |-> EmptyMap]


\* BindingsMap.definedEntities of each module: A defines the types T and A
\* (a type named like its module), B defines the type U and the polyglot
\* symbol P, C defines nothing
Entity(name, kind, exportable) ==
  [name |-> name, kind |-> kind, canExport |-> exportable]

DefinedEntities(m) ==
  CASE m = "A" -> <<Entity("T", "type", TRUE), Entity("A", "type", TRUE)>>
    [] m = "B" -> <<Entity("U", "type", TRUE), Entity("P", "polyglot", FALSE)>>
    [] OTHER   -> <<>>

\* DefinedEntity.canExport
canExport(e) == e.canExport

\* DefinedEntity.resolvedIn(module)
resolvedIn(e, m) == [kind |-> e.kind, module |-> m, name |-> e.name]

\* the constructors of a type: T has the single constructor T
Members(t) == IF t = ResolvedType("A", "T") THEN {"T"} ELSE {}

ResolvedConstructor(t, n) ==
  [kind |-> "constructor", module |-> t.module, name |-> n]

----------------------------------------------------------------------------
(* The inputs *)

\* the names an export declaration can list
SymbolLists == {<<>>, <<"A">>, <<"T">>, <<"A", "T">>}

\* the aliases an export declaration can give
Aliases == {None, Some("N"), Some("M")}

\* the lists of at most MaxModules modules, repeated modules included, in
\* which the modules first occur in the order A, B, C
ModuleLists ==
  {ms \in UNION {[1..n -> Modules] : n \in 1..MaxModules} :
     /\ ms[1] = "A"
     /\ \A i \in 1..Len(ms) :
          /\ ms[i] = "B" => \E j \in 1..(i-1) : ms[j] = "A"
          /\ ms[i] = "C" => \E j \in 1..(i-1) : ms[j] = "B"}

\* declarations of any target, with no alias and the symbol list [T]
PlainDecls == {ExportedModule(t, None, <<"T">>) : t \in Targets}

\* declarations of the targets ts with any alias and symbol list
RichDecls(ts) ==
  {ExportedModule(t, a, s) : t \in ts, a \in Aliases, s \in SymbolLists}

\* any graph over the targets, any input list, a module without bindings map
GraphInputs ==
  [lists    |-> ModuleLists,
   modes    |-> {"run", "runSort"},
   decls    |-> [m \in Modules |-> PlainDecls],
   nulls    |-> {{}} \cup {{m} : m \in Modules},
   privates |-> {{}}]

\* any alias and symbol list, on the edges A -> T, B -> T and B -> A
SymbolInputs ==
  [lists    |-> {<<"A", "B">>},
   modes    |-> {"run"},
   decls    |-> [m \in Modules |->
                   CASE m = "A" -> RichDecls({ResolvedType("A", "T")})
                     [] m = "B" -> RichDecls({ResolvedType("A", "T"),
                                              ResolvedModule("A")})
                     [] OTHER   -> {}],
   nulls    |-> {{}},
   privates |-> {{}}]

\* any graph over the targets, one module declared private
PrivateInputs ==
  [lists    |-> {<<"A", "B", "C">>},
   modes    |-> {"run"},
   decls    |-> [m \in Modules |-> PlainDecls],
   nulls    |-> {{}},
   privates |-> {{m} : m \in Modules}]

\* declarations of the targets ts with no alias and any symbol list
UnnamedDecls(ts) == {ExportedModule(t, None, s) : t \in ts, s \in SymbolLists}

\* any symbol list on the edges of the chain C -> B -> A -> T and on the
\* shortcut C -> A
ChainInputs ==
  [lists    |-> {<<"A", "B", "C">>},
   modes    |-> {"run"},
   decls    |-> [m \in Modules |->
                   CASE m = "A" -> UnnamedDecls({ResolvedType("A", "T")})
                     [] m = "B" -> UnnamedDecls({ResolvedModule("A")})
                     [] OTHER   -> UnnamedDecls({ResolvedModule("A"),
                                                 ResolvedModule("B")})],
   nulls    |-> {{}},
   privates |-> {{}}]

Families == {GraphInputs, SymbolInputs, PrivateInputs, ChainInputs}

\* the number of declarations of module m: none when m is not in the list ms
\* (its declarations are never read)
DeclCounts(ms, m) == IF m \in Range(ms) THEN 0..MaxExports ELSE {0}

\* the actor RuntimeKiller before anything was sent to it, with the
\* requesters `asking` still to send ShutDownRuntime
Killer(asking) ==
  [behavior   |-> "idle",   \* the Receive in force, or "stopped"
   replyTo    |-> <<>>,     \* the argument replyTo of the behavior
   retryCount |-> 0,        \* the argument retryCount of the behavior
   mailbox    |-> <<>>,     \* messages sent to the actor, not yet received
   scheduled  |-> {},       \* messages the scheduler has yet to send
   connector  |-> "idle",   \* the runtime connector: idle, asked, answered
   asking     |-> asking,   \* requesters that have yet to send
   received   |-> <<>>,     \* the messages the actor has taken, in order
   unhandled  |-> <<>>,     \* the messages no case of the behavior matched
   closes     |-> <<>>,     \* the outcome of each call of close()
   replies    |-> <<>>]     \* the replies the actor has sent

KillerAtRest == Killer({})

\* the actor OpenFileHandler before anything was sent to it, with the
\* requests `asking` still to be sent
Handler(asking) ==
  [behavior  |-> "requestStage",  \* the Receive in force, or "stopped"
   id        |-> 0,               \* the argument id of responseStage
   replyTo   |-> <<>>,            \* the argument replyTo of responseStage
   mailbox   |-> <<>>,            \* messages sent to the actor, not yet received
   scheduled |-> {},              \* messages the scheduler has yet to send
   registry  |-> "idle",          \* the buffer registry: idle, asked, answered
   asking    |-> asking,          \* requests that have yet to be sent
   received  |-> <<>>,            \* the messages the actor has taken, in order
   unhandled |-> <<>>,            \* the messages no case of the behavior matched
   replies   |-> <<>>]            \* the replies the actor has sent

HandlerAtRest == Handler({})

Init ==
  /\ \E F \in Families :
       /\ mode \in F.modes
       /\ modules \in F.lists
       /\ \E na \in DeclCounts(modules, "A"), nb \in DeclCounts(modules, "B"),
             nc \in DeclCounts(modules, "C") :
            /\ na + nb + nc <= MaxDecls
            /\ \E ea \in [1..na -> F.decls["A"]],
                  eb \in [1..nb -> F.decls["B"]],
                  ec \in [1..nc -> F.decls["C"]],
                  nul \in F.nulls, priv \in F.privates :
                 bindings =
                   [m \in Modules |->
                      IF m \in nul THEN NullBindings
                      ELSE BindingsMap(
                             CASE m = "A" -> ea [] m = "B" -> eb [] OTHER -> ec,
                             DefinedEntities(m), m \in priv)]
  /\ invalidated = {}
  /\ pc = "start"
  /\ nodes = EmptyMap
  /\ cycles = <<>>
  /\ degrees = EmptyMap
  /\ result = <<>>
  /\ tops = <<>>
  /\ exports = EmptyMap
  /\ idx = 0
  /\ outcome = [kind |-> "running", value |-> <<>>]
  /\ killer = KillerAtRest
  /\ handler = HandlerAtRest

----------------------------------------------------------------------------
(* buildGraph *)

\* a slip: the declarations are taken as they stand, private or not
getAllDeclaredExports(b, m) == b[m].declared

\* BindingsMap.getDirectlyExportedModules: the module's export declarations
\* as ExportedModule records; a declaration in a private module, or naming a
\* private module or a symbol of one, is diagnosed and gives no record
getDirectlyExportedModules(b, m) ==
  SelectSeq(b[m].declared,
            LAMBDA d : ~b[m].isPrivate /\ ~b[d.target.module].isPrivate)

\* nodes.getOrElseUpdate(mod, Node(mod)): the map after the call
getOrElseUpdate(ns, t) == IF t \in DOMAIN ns THEN ns ELSE ns @@ (t :> Node(t))

\* the edges of one module, in the order of its export records
RECURSIVE AddTargets(_, _)
AddTargets(ns, ex) ==
  IF ex = <<>> THEN ns
  ELSE AddTargets(getOrElseUpdate(ns, Head(ex).target), Tail(ex))

\* node.exports.foreach { edge => edge.exportee.exportedBy ::= edge }
RECURSIVE AddExportedBy(_, _)
AddExportedBy(ns, edges) ==
  IF edges = <<>> THEN ns
  ELSE AddExportedBy(
         [ns EXCEPT ![Head(edges).exportee].exportedBy = <<Head(edges)>> \o @],
         Tail(edges))

\* one pass of moduleTargets.foreach, for the module m
BuildModule(ns, b, m) ==
  LET module == ResolvedModule(m)
      ex     == IF ~b[m].isNull THEN getDirectlyExportedModules(b, m) ELSE <<>>
      ns1    == AddTargets(ns, ex)
      edges  == [i \in 1..Len(ex) |->
                   Edge(module, ex[i].symbols, ex[i].exportedAs, ex[i].target)]
      ns2    == [ns1 EXCEPT ![module].exports = edges]
  IN AddExportedBy(ns2, edges)

RECURSIVE BuildFrom(_, _, _)
BuildFrom(ns, b, ms) ==
  IF ms = <<>> THEN ns
  ELSE BuildFrom(BuildModule(ns, b, Head(ms)), b, Tail(ms))

\* a plausible slip: the map starts with a node for every known module
buildGraphOfAllModules(ms, b) ==
  BuildFrom([t \in {ResolvedModule(m) : m \in Modules} |-> Node(t)], b, ms)

\* the node map when buildGraph returns
buildGraph(ms, b) ==
  LET moduleTargets == {ResolvedModule(ms[i]) : i \in 1..Len(ms)}
  IN BuildFrom([t \in moduleTargets |-> Node(t)], b, ms)

\* the modules that buildGraph hands to context.updateModule
NullModules(ms, b) == {ms[i] : i \in {j \in 1..Len(ms) : b[ms[j]].isNull}}

BuildGraph ==
  /\ pc = "start"
  /\ nodes' = buildGraph(modules, bindings)
  /\ invalidated' = invalidated \cup NullModules(modules, bindings)
  /\ pc' = "built"
  /\ UNCHANGED <<mode, modules, bindings, cycles, degrees, result, tops,
                 exports, idx, outcome>>
  /\ UNCHANGED <<killer, handler>>

----------------------------------------------------------------------------
(* findCycles *)

\* node.exports.map(_.exportee)
Children(ns, node) ==
  [i \in 1..Len(ns[node].exports) |-> ns[node].exports[i].exportee]

\* a plausible slip: a result that closes at another node is forgotten
\* instead of handed on
closeOrExtendForgets(node, results, st) ==
  IF results = <<>> THEN [st |-> st, res |-> None]
  ELSE LET h == Head(results)
       IN IF h.mod = node
            THEN [st  |-> [st EXCEPT !.foundCycles = <<(<<h.mod>> \o h.path)>> \o @],
                  res |-> None]
            ELSE [st |-> st, res |-> None]

\* a plausible slip: the node is not put on the path that is handed on
closeOrExtendSkipsNode(node, results, st) ==
  IF results = <<>> THEN [st |-> st, res |-> None]
  ELSE LET h == Head(results)
       IN IF h.mod = node
            THEN [st  |-> [st EXCEPT !.foundCycles = <<(<<h.mod>> \o h.path)>> \o @],
                  res |-> None]
            ELSE [st |-> st, res |-> Some([mod |-> h.mod, path |-> h.path])]

\* a plausible slip: every result that closes at this node gives a cycle, not
\* the first result alone
closeOrExtendEvery(node, results, st) ==
  LET closing == SelectSeq(results, LAMBDA h : h.mod = node)
      others  == SelectSeq(results, LAMBDA h : h.mod # node)
  IN [st  |-> [st EXCEPT !.foundCycles =
                 [i \in 1..Len(closing) |-> <<node>> \o closing[i].path] \o @],
      res |-> IF others = <<>> THEN None
              ELSE Some([mod  |-> Head(others).mod,
                         path |-> <<node>> \o Head(others).path])]

\* childrenResults match { ... }: the first result, if any, either closes a
\* cycle at this node or is handed on with the node put before its path
closeOrExtend(node, results, st) ==
  IF results = <<>> THEN [st |-> st, res |-> None]
  ELSE LET h == Head(results)
       IN IF h.mod = node
            THEN [st  |-> [st EXCEPT !.foundCycles = <<(<<h.mod>> \o h.path)>> \o @],
                  res |-> None]
            ELSE [st  |-> st,
                  res |-> Some([mod |-> h.mod, path |-> <<node>> \o h.path])]

\* go(node): st holds visited, inProgress and foundCycles; the result is the
\* Option the call returns and the sets as the call leaves them.
\* goChildren is children.flatMap(go), one child after the other.
RECURSIVE go(_, _, _), goChildren(_, _, _, _)
go(ns, node, st) ==
  IF node \in st.inProgress
    THEN [st |-> st, res |-> Some([mod |-> node, path |-> <<>>])]
  ELSE IF node \in st.visited
    THEN [st |-> st, res |-> None]
  ELSE
    LET st1 == [st EXCEPT !.inProgress = @ \cup {node}]
        r   == goChildren(ns, Children(ns, node), st1, <<>>)
        st2 == [r.st EXCEPT !.inProgress = @ \ {node},
                            !.visited = @ \cup {node}]
    IN closeOrExtend(node, r.results, st2)

goChildren(ns, children, st, results) ==
  IF children = <<>> THEN [st |-> st, results |-> results]
  ELSE LET r == go(ns, Head(children), st)
       IN goChildren(ns, Tail(children), r.st, results \o r.res)

\* a plausible slip: the traversal stops at the first root that found a cycle
RECURSIVE goAllUntilFound(_, _, _)
goAllUntilFound(ns, order, st) ==
  IF order = <<>> \/ st.foundCycles # <<>> THEN st
  ELSE goAllUntilFound(ns, Tail(order), go(ns, Head(order), st).st)

\* nodes.foreach(go)
RECURSIVE goAll(_, _, _)
goAll(ns, order, st) ==
  IF order = <<>> THEN st
  ELSE goAll(ns, Tail(order), go(ns, Head(order), st).st)

\* findCycles(nodes) for the list `order` of the nodes
findCycles(ns, order) ==
  goAll(ns, order,
        [visited |-> {}, inProgress |-> {}, foundCycles |-> <<>>]).foundCycles

\* a plausible slip: runSort checks for cycles as run does
FindCyclesInAnyMode ==
  /\ pc = "built"
  /\ \E order \in Orderings(DOMAIN nodes) :
       cycles' = findCycles(nodes, order)
  /\ pc' = "checked"
  /\ UNCHANGED <<mode, modules, bindings, invalidated, nodes, degrees, result,
                 tops, exports, idx, outcome>>
  /\ UNCHANGED <<killer, handler>>

\* val cycles = findCycles(graph); graph is nodes.values.toList, the values
\* of a mutable.Map in the order of its hash table
FindCycles ==
  /\ pc = "built"
  /\ mode = "run"
  /\ \E order \in Orderings(DOMAIN nodes) :
       cycles' = findCycles(nodes, order)
  /\ pc' = "checked"
  /\ UNCHANGED <<mode, modules, bindings, invalidated, nodes, degrees, result,
                 tops, exports, idx, outcome>>
  /\ UNCHANGED <<killer, handler>>

\* _.target.module.unsafeAsModule()
ModuleOf(t) == t.module

\* if (cycles.nonEmpty) throw ExportCycleException(cycles.head.map(...))
ThrowCycle ==
  /\ pc = "checked"
  /\ cycles # <<>>
  /\ outcome' = [kind  |-> "ExportCycleException",
                 value |-> [i \in 1..Len(Head(cycles)) |->
                              ModuleOf(Head(cycles)[i])]]
  /\ pc' = "done"
  /\ UNCHANGED <<mode, modules, bindings, invalidated, nodes, cycles, degrees,
                 result, tops, exports, idx>>
  /\ UNCHANGED <<killer, handler>>

----------------------------------------------------------------------------
(* topsort *)

\* m - key
Without(m, key) == [k \in DOMAIN m \ {key} |-> m[k]]

\* item.exportedBy.foreach { edge => degrees(edge.exporter) -= 1; ... }
\* failed: degrees(edge.exporter) was looked up after the exporter was removed
RECURSIVE Decrement(_, _, _)
Decrement(edges, deg, q) ==
  IF edges = <<>> THEN [failed |-> FALSE, degrees |-> deg, q |-> q]
  ELSE LET exporter == Head(edges).exporter
       IN IF exporter \notin DOMAIN deg
            THEN [failed |-> TRUE, degrees |-> deg, q |-> q]
            ELSE LET d == deg[exporter] - 1
                 IN Decrement(Tail(edges), [deg EXCEPT ![exporter] = d],
                              IF d = 0 THEN Append(q, exporter) ELSE q)

\* while (q.nonEmpty) { ... }
RECURSIVE Drain(_, _, _, _)
Drain(ns, q, deg, res) ==
  IF q = <<>> THEN [failed |-> FALSE, degrees |-> deg, result |-> res]
  ELSE LET item == Head(q)
           r    == Decrement(ns[item].exportedBy, Without(deg, item), Tail(q))
       IN IF r.failed
            THEN [failed |-> TRUE, degrees |-> r.degrees, result |-> res]
            ELSE Drain(ns, r.q, r.degrees, <<item>> \o res)

\* the nodes degrees.find { case (_, deg) => deg == 0 } can give
ZeroDegree(deg) == {n \in DOMAIN deg : deg[n] = 0}

\* a plausible slip: the sort starts although findCycles reported a cycle
TopsortBeginUnchecked ==
  /\ \/ pc = "checked"
     \/ pc = "built" /\ mode = "runSort"
  /\ degrees' = [n \in DOMAIN nodes |-> Len(nodes[n].exports)]
  /\ result' = <<>>
  /\ pc' = "sorting"
  /\ UNCHANGED <<mode, modules, bindings, invalidated, nodes, cycles, tops,
                 exports, idx, outcome>>
  /\ UNCHANGED <<killer, handler>>

\* val tops = topsort(graph), reached in run only when no cycle was found:
\* nodes.foreach { node => degrees(node) = node.exports.length }
TopsortBegin ==
  /\ \/ pc = "checked" /\ cycles = <<>>
     \/ pc = "built" /\ mode = "runSort"
  /\ degrees' = [n \in DOMAIN nodes |-> Len(nodes[n].exports)]
  /\ result' = <<>>
  /\ pc' = "sorting"
  /\ UNCHANGED <<mode, modules, bindings, invalidated, nodes, cycles, tops,
                 exports, idx, outcome>>
  /\ UNCHANGED <<killer, handler>>

\* a plausible slip: the sort consumes the edges it has counted, as the
\* textbook algorithm does, and empties exportedBy of the nodes it has placed
TopsortPassConsumingEdges ==
  /\ pc = "sorting"
  /\ \E entry \in ZeroDegree(degrees) :
       LET r == Drain(nodes, <<entry>>, degrees, result)
       IN IF r.failed
            THEN /\ outcome' = [kind |-> "NoSuchElementException",
                                value |-> <<>>]
                 /\ pc' = "done"
                 /\ UNCHANGED <<degrees, result, nodes>>
            ELSE /\ degrees' = r.degrees
                 /\ result' = r.result
                 /\ nodes' = [n \in DOMAIN nodes |->
                                IF n \in DOMAIN r.degrees THEN nodes[n]
                                ELSE [nodes[n] EXCEPT !.exportedBy = <<>>]]
                 /\ UNCHANGED <<pc, outcome>>
  /\ UNCHANGED <<mode, modules, bindings, invalidated, cycles, tops,
                 exports, idx>>
  /\ UNCHANGED <<killer, handler>>

\* one pass of while (degrees.nonEmpty): take a node of degree 0, empty the
\* queue
TopsortPass ==
  /\ pc = "sorting"
  /\ \E entry \in ZeroDegree(degrees) :
       LET r == Drain(nodes, <<entry>>, degrees, result)
       IN IF r.failed
            THEN /\ outcome' = [kind |-> "NoSuchElementException",
                                value |-> <<>>]
                 /\ pc' = "done"
                 /\ UNCHANGED <<degrees, result>>
            ELSE /\ degrees' = r.degrees
                 /\ result' = r.result
                 /\ UNCHANGED <<pc, outcome>>
  /\ UNCHANGED <<mode, modules, bindings, invalidated, nodes, cycles, tops,
                 exports, idx>>
  /\ UNCHANGED <<killer, handler>>

\* degrees.find(...).get when no node has degree 0
TopsortNoEntry ==
  /\ pc = "sorting"
  /\ DOMAIN degrees # {}
  /\ ZeroDegree(degrees) = {}
  /\ outcome' = [kind |-> "NoSuchElementException", value |-> <<>>]
  /\ pc' = "done"
  /\ UNCHANGED <<mode, modules, bindings, invalidated, nodes, cycles, degrees,
                 result, tops, exports, idx>>
  /\ UNCHANGED <<killer, handler>>

\* a plausible slip: the result is returned as it was built, last node first
TopsortEndUnreversed ==
  /\ pc = "sorting"
  /\ DOMAIN degrees = {}
  /\ tops' = result
  /\ pc' = "sorted"
  /\ UNCHANGED <<mode, modules, bindings, invalidated, nodes, cycles, degrees,
                 result, exports, idx, outcome>>
  /\ UNCHANGED <<killer, handler>>

\* result.reverse
TopsortEnd ==
  /\ pc = "sorting"
  /\ DOMAIN degrees = {}
  /\ tops' = Reverse(result)
  /\ pc' = "sorted"
  /\ UNCHANGED <<mode, modules, bindings, invalidated, nodes, cycles, degrees,
                 result, exports, idx, outcome>>
  /\ UNCHANGED <<killer, handler>>

----------------------------------------------------------------------------
(* resolveExports *)

\* node.exports.map(edge => ExportedModule(edge.exportee.target, ...))
explicitlyExported(node) ==
  [i \in 1..Len(node.exports) |->
     ExportedModule(node.exports[i].exportee, node.exports[i].exportsAs,
                    node.exports[i].symbols)]

\* a plausible slip: the parent's symbols are passed on without intersecting
ThroughUnrestricted(exps, e) ==
  [j \in 1..Len(exps[e.target]) |->
     ExportedModule(exps[e.target][j].target, None,
                    exps[e.target][j].symbols)]

\* a plausible slip: the record keeps the alias of the deeper edge
ThroughWithAlias(exps, e) ==
  [j \in 1..Len(exps[e.target]) |->
     ExportedModule(exps[e.target][j].target, exps[e.target][j].exportedAs,
                    Intersect(e.symbols, exps[e.target][j].symbols))]

\* a plausible slip: a record whose intersection is empty is dropped
ThroughNonEmpty(exps, e) ==
  SelectSeq([j \in 1..Len(exps[e.target]) |->
               ExportedModule(exps[e.target][j].target, None,
                              Intersect(e.symbols, exps[e.target][j].symbols))],
            LAMBDA x : x.symbols # <<>>)

\* exports(module).map { ... }: what one explicit record brings along
Through(exps, e) ==
  [j \in 1..Len(exps[e.target]) |->
     ExportedModule(exps[e.target][j].target, None,
                    Intersect(e.symbols, exps[e.target][j].symbols))]

\* explicitlyExported.flatMap { ... }
RECURSIVE transitivelyExported(_, _)
transitivelyExported(exps, explicit) ==
  IF explicit = <<>> THEN <<>>
  ELSE Through(exps, Head(explicit)) \o transitivelyExported(exps, Tail(explicit))

\* items.collectFirst { case ExportedModule(_, Some(n), _) => n }
RECURSIVE collectFirstName(_)
collectFirstName(items) ==
  IF items = <<>> THEN None
  ELSE IF Head(items).exportedAs # None THEN Head(items).exportedAs
  ELSE collectFirstName(Tail(items))

\* a plausible slip: the first record of the group stands for the group
UnifyFirstOnly(allExported, mod) ==
  LET items == SelectSeq(allExported, LAMBDA x : x.target = mod)
  IN ExportedModule(mod, collectFirstName(items), Distinct(Head(items).symbols))

\* one group of allExported.groupBy(_.target), made into one record
Unify(allExported, mod) ==
  LET items == SelectSeq(allExported, LAMBDA x : x.target = mod)
  IN ExportedModule(
       mod,
       collectFirstName(items),
       Distinct(Flatten([i \in 1..Len(items) |-> items[i].symbols])))

\* the list `unified`, its groups in the order `order`
unified(allExported, order) ==
  [i \in 1..Len(order) |-> Unify(allExported, order[i])]

\* m(key) = value
Updated(m, key, value) ==
  [k \in DOMAIN m \cup {key} |-> IF k = key THEN value ELSE m[k]]

\* one pass of nodes.foreach in resolveExports, for the node tops[idx + 1];
\* groupBy gives a hash map, so the groups come in any order
ResolveNode ==
  /\ pc = "sorted"
  /\ mode = "run"
  /\ idx < Len(tops)
  /\ LET node     == nodes[tops[idx + 1]]
         explicit == explicitlyExported(node)
     IN IF \E i \in 1..Len(explicit) : explicit[i].target \notin DOMAIN exports
          THEN \* exports(module): key not found
               /\ outcome' = [kind |-> "NoSuchElementException", value |-> <<>>]
               /\ pc' = "done"
               /\ UNCHANGED <<exports, idx>>
          ELSE LET allExported ==
                     explicit \o transitivelyExported(exports, explicit)
                   groups == {allExported[i].target : i \in 1..Len(allExported)}
               IN /\ \E order \in Orderings(groups) :
                       exports' = Updated(exports, node.target,
                                          unified(allExported, order))
                  /\ idx' = idx + 1
                  /\ UNCHANGED <<pc, outcome>>
  /\ UNCHANGED <<mode, modules, bindings, invalidated, nodes, cycles, degrees,
                 result, tops>>
  /\ UNCHANGED <<killer, handler>>

\* the module targets of the map `exports`
ModuleKeys(exps) == {t \in DOMAIN exps : t.kind = "module"}

\* bindings with resolvedExports of the modules of `written` assigned
StoreInto(b, exps, written) ==
  [m \in DOMAIN b |->
     IF ResolvedModule(m) \in written
       THEN [b[m] EXCEPT !.resolvedExports = exps[ResolvedModule(m)]]
       ELSE b[m]]

\* exports.foreach { case (target, exports) => ... }: the assignment through
\* a null bindings map throws, after the entries that the hash map gave first
StoreResolvedExports ==
  /\ pc = "sorted"
  /\ mode = "run"
  /\ idx = Len(tops)
  /\ LET keys  == ModuleKeys(exports)
         nulls == {t \in keys : bindings[t.module].isNull}
     IN IF nulls = {}
          THEN /\ bindings' = StoreInto(bindings, exports, keys)
               /\ pc' = "resolved"
               /\ UNCHANGED outcome
          ELSE /\ \E written \in SUBSET (keys \ nulls) :
                    bindings' = StoreInto(bindings, exports, written)
               /\ outcome' = [kind |-> "NullPointerException", value |-> <<>>]
               /\ pc' = "done"
  /\ UNCHANGED <<mode, modules, invalidated, nodes, cycles, degrees, result,
                 tops, exports, idx>>
  /\ UNCHANGED <<killer, handler>>

----------------------------------------------------------------------------
(* resolveExportedSymbols *)

\* ImportTarget.exportedSymbols: of a module, the exportedSymbols of its
\* bindings map; of a type, its constructors; of anything else, nothing
exportedSymbolsOf(b, t) ==
  CASE t.kind = "module" -> b[t.module].exportedSymbols
    [] t.kind = "type"   -> [n \in Members(t) |-> <<ResolvedConstructor(t, n)>>]
    [] OTHER             -> EmptyMap

\* bindings.definedEntities.filter(_.canExport).map(...)
ownEntities(b, m) ==
  LET es == SelectSeq(b[m].definedEntities, canExport)
  IN [i \in 1..Len(es) |->
        [name |-> es[i].name, resolutions |-> <<resolvedIn(es[i], m)>>]]

\* the entry one resolved export gives to exportedModules, if any
ExportedModuleEntry(ex, m) ==
  IF ex.exportedAs = None THEN <<>>
  ELSE LET isThisModule      == ModuleOf(ex.target) = m
           exportsOnlyModule == /\ Len(ex.symbols) = 1
                                /\ Head(ex.symbols) = ModuleOf(ex.target)
       IN IF ~isThisModule /\ exportsOnlyModule
            THEN <<[name |-> Head(ex.exportedAs), resolutions |-> <<ex.target>>]>>
            ELSE <<>>

\* bindings.resolvedExports.flatMap { case ExportedModule(mod, Some(...)) ... }
exportedModules(b, m) ==
  Flatten([i \in 1..Len(b[m].resolvedExports) |->
             ExportedModuleEntry(b[m].resolvedExports[i], m)])

\* a plausible slip: every symbol of the target is re-exported
ReExportedNamesAll(b, ex) == DOMAIN exportedSymbolsOf(b, ex.target)

\* the names one resolved export re-exports: those of its target's
\* exportedSymbols that its symbol list contains
ReExportedNames(b, ex) ==
  {sym \in DOMAIN exportedSymbolsOf(b, ex.target) : Contains(ex.symbols, sym)}

\* List(ownEntities, exportedModules, reExportedSymbols).flatten.groupBy(_._1):
\* the resolutions listed under the name n, in the order of the flattened list
\* (a name occurs once in a target's exportedSymbols, so the order in which
\* that map is iterated does not show in any group)
ResolutionsOf(b, m, n) ==
  LET own  == ownEntities(b, m)
      mods == exportedModules(b, m)
      rex  == b[m].resolvedExports
      pick(entries) ==
        Flatten([i \in 1..Len(entries) |->
                   IF entries[i].name = n THEN entries[i].resolutions ELSE <<>>])
      reExported ==
        Flatten([i \in 1..Len(rex) |->
                   IF n \in ReExportedNames(b, rex[i])
                     THEN exportedSymbolsOf(b, rex[i].target)[n] ELSE <<>>])
  IN Distinct(pick(own) \o pick(mods) \o reExported)

\* the keys of the grouped map
ExportedNames(b, m) ==
  LET own  == ownEntities(b, m)
      mods == exportedModules(b, m)
      rex  == b[m].resolvedExports
  IN {own[i].name : i \in 1..Len(own)}
       \cup {mods[i].name : i \in 1..Len(mods)}
       \cup UNION {ReExportedNames(b, rex[i]) : i \in 1..Len(rex)}

\* one pass of modules.foreach: bindings.exportedSymbols = ...
SymbolsOfModule(b, m) ==
  [b EXCEPT ![m].exportedSymbols =
     [n \in ExportedNames(b, m) |-> ResolutionsOf(b, m, n)]]

\* failed: getBindings(module) is null
RECURSIVE resolveExportedSymbols(_, _)
resolveExportedSymbols(b, ms) ==
  IF ms = <<>> THEN [failed |-> FALSE, bindings |-> b]
  ELSE IF b[Head(ms)].isNull THEN [failed |-> TRUE, bindings |-> b]
  ELSE resolveExportedSymbols(SymbolsOfModule(b, Head(ms)), Tail(ms))

\* tops.map(_.target).collect { case m: ResolvedModule => ... }
ModulesIn(ts) ==
  LET ms == SelectSeq(ts, LAMBDA t : t.kind = "module")
  IN [i \in 1..Len(ms) |-> ModuleOf(ms[i])]

ResolveExportedSymbols ==
  /\ pc = "resolved"
  /\ LET r == resolveExportedSymbols(bindings, ModulesIn(tops))
     IN IF r.failed
          THEN /\ bindings' = r.bindings
               /\ outcome' = [kind |-> "NullPointerException", value |-> <<>>]
               /\ pc' = "done"
          ELSE /\ bindings' = r.bindings
               /\ pc' = "symbols"
               /\ UNCHANGED outcome
  /\ UNCHANGED <<mode, modules, invalidated, nodes, cycles, degrees, result,
                 tops, exports, idx>>
  /\ UNCHANGED <<killer, handler>>

----------------------------------------------------------------------------
(* run and runSort: the returned list *)

\* a plausible slip: distinct without the two reversals keeps the first
\* occurrence of each module
FirstOccurrences(ts) == Distinct([i \in 1..Len(ts) |-> ModuleOf(ts[i])])

\* topModules.map(_.module.unsafeAsModule()).reverse.distinct.reverse
LastOccurrences(ts) ==
  Reverse(Distinct(Reverse([i \in 1..Len(ts) |-> ModuleOf(ts[i])])))

Return ==
  /\ \/ pc = "symbols"
     \/ pc = "sorted" /\ mode = "runSort"
  /\ outcome' = [kind |-> "returned", value |-> LastOccurrences(tops)]
  /\ pc' = "done"
  /\ UNCHANGED <<mode, modules, bindings, invalidated, nodes, cycles, degrees,
                 result, tops, exports, idx>>
  /\ UNCHANGED <<killer, handler>>

Next ==
  \/ BuildGraph
  \/ FindCycles
  \/ ThrowCycle
  \/ TopsortBegin
  \/ TopsortPass
  \/ TopsortNoEntry
  \/ TopsortEnd
  \/ ResolveNode
  \/ StoreResolvedExports
  \/ ResolveExportedSymbols
  \/ Return

Spec == Init /\ [][Next]_vars

----------------------------------------------------------------------------
(* What the properties speak about *)

\* the export records buildGraph reads from module m
DeclaredBy(m) ==
  IF bindings[m].isNull THEN <<>> ELSE getDirectlyExportedModules(bindings, m)

\* the export edges the input declares, as pairs <<exporter, exportee>>
ExportEdges ==
  UNION {{<<ResolvedModule(m), d.target>> : d \in Range(DeclaredBy(m))} :
           m \in Range(modules)}

RECURSIVE ReachFrom(_, _)
ReachFrom(E, S) ==
  LET S2 == S \cup {e[2] : e \in {x \in E : x[1] \in S}}
  IN IF S2 = S THEN S ELSE ReachFrom(E, S2)

\* the targets reached from n by one or more edges of E
Reachable(E, n) == ReachFrom(E, {e[2] : e \in {x \in E : x[1] = n}})

HasExportCycle == \E e \in ExportEdges : e[1] \in Reachable(ExportEdges, e[1])

NoRepeats(s) == \A i, j \in 1..Len(s) : s[i] = s[j] => i = j

AllBindingsPresent == \A m \in Modules : ~bindings[m].isNull

Before(s, x, y) == \E i, j \in 1..Len(s) : i < j /\ s[i] = x /\ s[j] = y

Returned == pc = "done" /\ outcome.kind = "returned"

Threw(kind) == pc = "done" /\ outcome.kind = kind

----------------------------------------------------------------------------
(* Properties *)

\* C1: run on an acyclic export graph returns, and every module named by an
\* export edge comes before the module that exports it in the returned list.
\* Stated here for lists without repeated modules, with every bindings map
\* present, and for the edges whose exportee is a module: what the comment on
\* run promises ("any module exported by a given module comes before it").
C1_ExportedModuleComesFirst ==
  (/\ pc = "done" /\ mode = "run"
   /\ ~HasExportCycle /\ NoRepeats(modules) /\ AllBindingsPresent)
  => /\ outcome.kind = "returned"
     /\ \A e \in ExportEdges :
          e[2].kind = "module"
            => Before(outcome.value, ModuleOf(e[2]), ModuleOf(e[1]))

\* C2: when the declared export edges contain a cycle, findCycles reports
\* at least one cycle and run ends with ExportCycleException.
C2_CycleRaises ==
  (mode = "run" /\ HasExportCycle)
  => /\ pc = "checked" => cycles # <<>>
     /\ pc = "done" => outcome.kind = "ExportCycleException"

C2_Witness ==
  /\ Threw("ExportCycleException")
  /\ \E e \in ExportEdges : e[1] = e[2]
  /\ \E e \in ExportEdges : e[1] # e[2] /\ e[1] \in Reachable(ExportEdges, e[2])

\* a chain of nodes that is a cycle of the declared export edges
GenuineCycle(c) ==
  /\ c # <<>>
  /\ NoRepeats(c)
  /\ \A i \in 1..(Len(c) - 1) : <<c[i], c[i + 1]>> \in ExportEdges
  /\ <<c[Len(c)], c[1]>> \in ExportEdges

Rotations(c) ==
  {[i \in 1..Len(c) |-> c[((i + k - 1) % Len(c)) + 1]] : k \in 0..(Len(c) - 1)}

ThreeCycle ==
  ExportEdges = {<<ResolvedModule("A"), ResolvedModule("B")>>,
                 <<ResolvedModule("B"), ResolvedModule("C")>>,
                 <<ResolvedModule("C"), ResolvedModule("A")>>}

\* C3: every chain findCycles reports is a cycle of the declared edges, with
\* no node twice; the exception carries the modules of such a chain; for
\* A -> B -> C -> A the only chain is [A, B, C] or a rotation of it.
C3_ReportedCyclesAreCycles ==
  /\ \A i \in 1..Len(cycles) : GenuineCycle(cycles[i])
  /\ Threw("ExportCycleException")
       => \E i \in 1..Len(cycles) :
            outcome.value = [j \in 1..Len(cycles[i]) |-> ModuleOf(cycles[i][j])]
  /\ (ThreeCycle /\ pc = "checked")
       => /\ Len(cycles) = 1
          /\ cycles[1] \in Rotations(<<ResolvedModule("A"), ResolvedModule("B"),
                                       ResolvedModule("C")>>)

C3_Witness ==
  /\ Threw("ExportCycleException")
  /\ ThreeCycle
  /\ outcome.value = <<"B", "C", "A">>

\* resolvedExports and exportedSymbols of every bindings map are as the call
\* found them
FieldsUntouched ==
  \A m \in Modules :
    /\ bindings[m].resolvedExports = <<>>
    /\ bindings[m].exportedSymbols = EmptyMap

\* C4: once findCycles has reported a cycle, the only step run takes is to
\* raise ExportCycleException: no ordering or resolution step runs, and when
\* the exception is raised resolvedExports and exportedSymbols of every
\* bindings map are as they were before the call.
C4_CycleStopsThePipeline ==
  /\ [][(pc = "checked" /\ cycles # <<>>)
          => /\ pc' = "done"
             /\ outcome'.kind = "ExportCycleException"
             /\ UNCHANGED <<bindings, degrees, result, tops, exports, idx>>]_vars
  /\ [](Threw("ExportCycleException")
          => /\ FieldsUntouched
             /\ tops = <<>> /\ degrees = EmptyMap /\ exports = EmptyMap)

C4_Witness ==
  /\ Threw("ExportCycleException")
  /\ Len(cycles) > 1

\* C5: with the bindings map of an input module absent, run invalidates that
\* module and still completes the whole pipeline without raising an error.
\* Stated for acyclic inputs without repeated modules.
C5_NullBindingsCompletes ==
  (/\ pc = "done" /\ mode = "run"
   /\ ~HasExportCycle /\ NoRepeats(modules)
   /\ \E m \in Range(modules) : bindings[m].isNull)
  => /\ outcome.kind = "returned"
     /\ \A m \in Range(modules) : bindings[m].isNull => m \in invalidated

----------------------------------------------------------------------------
(* Properties of the resolved exports *)

\* run has stored resolvedExports in the bindings maps
ExportsResolved == mode = "run" /\ (pc \in {"resolved", "symbols"} \/ Returned)

\* run has stored exportedSymbols in the bindings maps
SymbolsResolved == mode = "run" /\ (pc = "symbols" \/ Returned)

\* the export records of the edges that leave module m in the graph
EdgesOf(m) == IF m \in Range(modules) THEN DeclaredBy(m) ELSE <<>>

\* the resolved exports of a target: those stored for a module; a type,
\* constructor or method exports nothing
ResolvedOf(t) ==
  IF t.kind = "module" THEN Range(bindings[t.module].resolvedExports) ELSE {}

RecordsOf(m) == Range(bindings[m].resolvedExports)

\* the indices of the edges of m that go to the target t
DirectTo(m, t) == {i \in 1..Len(EdgesOf(m)) : EdgesOf(m)[i].target = t}

\* the indices of the edges of m whose exportee has a resolved export of t
ThroughTo(m, t) ==
  {i \in 1..Len(EdgesOf(m)) :
     \E p \in ResolvedOf(EdgesOf(m)[i].target) : p.target = t}

\* C6: intersection law. If M has an edge to X restricted to S and X's
\* resolved exports hold a record (T, P), then M has a record for T holding
\* every symbol of S \cap P; and when that edge is M's only path to T, M's
\* record for T holds exactly the symbols of S \cap P.
C6_IntersectionLaw ==
  ExportsResolved =>
    \A m \in Modules : \A i \in 1..Len(EdgesOf(m)) :
      LET e == EdgesOf(m)[i]
      IN \A p \in ResolvedOf(e.target) :
           \E r \in RecordsOf(m) :
             /\ r.target = p.target
             /\ Range(e.symbols) \cap Range(p.symbols) \subseteq Range(r.symbols)
             /\ (DirectTo(m, p.target) = {} /\ ThroughTo(m, p.target) = {i})
                  => Range(r.symbols) = Range(e.symbols) \cap Range(p.symbols)

\* B exports [T] from A, A exports [A, T] of the type T: B's record for the
\* type holds T and not A
C6_Witness ==
  /\ ExportsResolved
  /\ EdgesOf("B") = <<ExportedModule(ResolvedModule("A"), None, <<"T">>)>>
  /\ \E p \in RecordsOf("A") :
       p.target = ResolvedType("A", "T") /\ p.symbols = <<"A", "T">>
  /\ \E r \in RecordsOf("B") :
       r.target = ResolvedType("A", "T") /\ r.symbols = <<"T">>

\* C7: a target that M reaches only through other nodes has exportedAs =
\* None in resolvedExports(M); a target that M exports directly has an alias
\* declared on one of M's own edges to it (the alias of the edge, when there
\* is one such edge).
C7_NoInheritedAlias ==
  ExportsResolved =>
    \A m \in Modules : \A r \in RecordsOf(m) :
      LET direct == DirectTo(m, r.target)
      IN /\ direct = {} => r.exportedAs = None
         /\ direct # {} => \E i \in direct : r.exportedAs = EdgesOf(m)[i].exportedAs
         /\ \A i \in direct : direct = {i} => r.exportedAs = EdgesOf(m)[i].exportedAs

\* B exports A as M, A exports the type T as N: B's record for T has no alias
C7_Witness ==
  /\ ExportsResolved
  /\ \E i \in 1..Len(EdgesOf("A")) :
       /\ EdgesOf("A")[i].target = ResolvedType("A", "T")
       /\ EdgesOf("A")[i].exportedAs = Some("N")
  /\ \E r \in RecordsOf("B") : r.target = ResolvedModule("A") /\ r.exportedAs = Some("M")
  /\ DirectTo("B", ResolvedType("A", "T")) = {}
  /\ \E r \in RecordsOf("B") : r.target = ResolvedType("A", "T") /\ r.exportedAs = None

\* the alias of the first edge of m to t that has one
FirstAlias(m, t) ==
  LET named == {i \in DirectTo(m, t) : EdgesOf(m)[i].exportedAs # None}
  IN IF named = {} THEN None
     ELSE EdgesOf(m)[CHOOSE i \in named : \A j \in named : i <= j].exportedAs

\* the symbols of every explicit and transitive record of m for t
AllSymbolsFor(m, t) ==
  UNION {Range(EdgesOf(m)[i].symbols) : i \in DirectTo(m, t)}
    \cup UNION {UNION {Range(EdgesOf(m)[i].symbols) \cap Range(p.symbols) :
                         p \in {q \in ResolvedOf(EdgesOf(m)[i].target) : q.target = t}} :
                  i \in 1..Len(EdgesOf(m))}

\* C8: resolvedExports of a module has one record for each target of its
\* explicit and transitive records and no other; the record's symbol list
\* has no duplicates and holds the symbols of all those records; its alias is
\* the first alias among the explicit records (transitive records have
\* none), None if there is none.
C8_OneMergedRecordPerTarget ==
  ExportsResolved =>
    \A m \in Modules :
      LET rs == bindings[m].resolvedExports
      IN /\ \A i, j \in 1..Len(rs) : rs[i].target = rs[j].target => i = j
         /\ {rs[i].target : i \in 1..Len(rs)}
              = {t \in Targets : DirectTo(m, t) # {} \/ ThroughTo(m, t) # {}}
         /\ \A i \in 1..Len(rs) :
              /\ NoRepeats(rs[i].symbols)
              /\ Range(rs[i].symbols) = AllSymbolsFor(m, rs[i].target)
              /\ rs[i].exportedAs = FirstAlias(m, rs[i].target)

\* B exports the type T twice, as N with [A] and as M with [T], and exports A,
\* which exports T: one record for T, named N, with both symbols
C8_Witness ==
  /\ ExportsResolved
  /\ Len(EdgesOf("B")) = 2
  /\ EdgesOf("B")[1] = ExportedModule(ResolvedType("A", "T"), Some("N"), <<"A">>)
  /\ EdgesOf("B")[2] = ExportedModule(ResolvedType("A", "T"), Some("M"), <<"T">>)
  /\ bindings["B"].resolvedExports
       = <<ExportedModule(ResolvedType("A", "T"), Some("N"), <<"A", "T">>)>>

\* the names a target exposes: the keys of a module's exportedSymbols, the
\* constructors of a type
Exposes(t) ==
  CASE t.kind = "module" -> DOMAIN bindings[t.module].exportedSymbols
    [] t.kind = "type"   -> Members(t)
    [] OTHER             -> {}

\* the names of the exportable entities that m defines
OwnNames(m) ==
  {bindings[m].definedEntities[i].name :
     i \in {j \in 1..Len(bindings[m].definedEntities) :
              bindings[m].definedEntities[j].canExport}}

\* the aliases of the whole-module exports of m: records with an alias whose
\* symbol list is exactly the name of the target's module, another module
AliasNames(m) ==
  {Head(r.exportedAs) :
     r \in {q \in RecordsOf(m) : /\ q.exportedAs # None
                                 /\ q.target.module # m
                                 /\ q.symbols = <<q.target.module>>}}

\* the names listed in a record of m that the record's target exposes
ListedAndExposed(m) ==
  UNION {Range(r.symbols) \cap Exposes(r.target) : r \in RecordsOf(m)}

PrivateModules == {m \in Modules : bindings[m].isPrivate}

\* the declarations of m whose target is not a private module or a symbol
\* of one
PublicDeclarations(m) ==
  SelectSeq(bindings[m].declared,
            LAMBDA d : d.target.module \notin PrivateModules)

\* C10: privacy. No record of another module's resolvedExports has a
\* private module or a symbol of one as its target, and no name of another
\* module's exportedSymbols resolves into a private module; a module whose
\* only declarations export from private modules has no resolved exports and
\* only its own names; and a run over present bindings maps whose remaining
\* edges have no cycle returns.
C10_Privacy ==
  /\ ExportsResolved =>
       \A p \in PrivateModules : \A m \in Modules \ {p} :
         /\ \A r \in RecordsOf(m) : r.target.module # p
         /\ (m \in Range(modules) /\ PublicDeclarations(m) = <<>>)
              => bindings[m].resolvedExports = <<>>
  /\ SymbolsResolved =>
       \A p \in PrivateModules : \A m \in Modules \ {p} :
         /\ \A n \in DOMAIN bindings[m].exportedSymbols :
              \A k \in 1..Len(bindings[m].exportedSymbols[n]) :
                bindings[m].exportedSymbols[n][k].module # p
         /\ (m \in Range(ModulesIn(tops)) /\ PublicDeclarations(m) = <<>>)
              => DOMAIN bindings[m].exportedSymbols = OwnNames(m)
  /\ ( /\ PrivateModules # {}
       /\ mode = "run"
       /\ pc = "done"
       /\ ~HasExportCycle ) => Returned

\* A is private, B exports A and C exports B: B has no resolved export, C
\* has its record for B, and run has returned
C10_Witness ==
  /\ Returned
  /\ mode = "run"
  /\ PrivateModules = {"A"}
  /\ \E i \in 1..Len(bindings["B"].declared) :
       bindings["B"].declared[i].target = ResolvedModule("A")
  /\ bindings["B"].resolvedExports = <<>>
  /\ \E r \in RecordsOf("C") : r.target = ResolvedModule("B")

----------------------------------------------------------------------------
(* Properties of the orchestration and of the graph *)

\* every list topsort can return from the counters deg and the partial
\* result res, over all the choices of degrees.find
RECURSIVE SortsFrom(_, _, _)
SortsFrom(ns, deg, res) ==
  IF DOMAIN deg = {} THEN {Reverse(res)}
  ELSE UNION {LET r == Drain(ns, <<entry>>, deg, res)
              IN IF r.failed THEN {} ELSE SortsFrom(ns, r.degrees, r.result) :
                entry \in ZeroDegree(deg)}

\* every list `unified` that resolveExports can store for the node
\* tops[idx + 1], over all the orders of the groups of groupBy
UnifiedLists ==
  LET explicit    == explicitlyExported(nodes[tops[idx + 1]])
      allExported == explicit \o transitivelyExported(exports, explicit)
      groups      == {allExported[i].target : i \in 1..Len(allExported)}
  IN {unified(allExported, order) : order \in Orderings(groups)}

\* C11: determinism. On a list without repeated modules whose bindings maps
\* are all present, the module order that run returns and the records that
\* it stores are the same whichever zero-degree entry degrees.find gives and
\* whichever order the groups of groupBy come in.
C11_Deterministic ==
  (mode = "run" /\ NoRepeats(modules) /\ AllBindingsPresent) =>
    /\ pc = "sorting" =>
         Cardinality({LastOccurrences(t) :
                        t \in SortsFrom(nodes, degrees, result)}) <= 1
    /\ (/\ pc = "sorted"
        /\ idx < Len(tops)
        /\ \A i \in 1..Len(nodes[tops[idx + 1]].exports) :
             nodes[tops[idx + 1]].exports[i].exportee \in DOMAIN exports)
         => Cardinality(UnifiedLists) <= 1

\* the place in the sorted node list of the last node of module m
LastNodeOf(m) ==
  CHOOSE i \in 1..Len(tops) :
    /\ ModuleOf(tops[i]) = m
    /\ \A j \in 1..Len(tops) : ModuleOf(tops[j]) = m => j <= i

\* C12: the list that run or runSort returns holds every input module, and
\* no module twice; its modules are those of the sorted nodes, each at the
\* place of the last of its nodes in the sorted node order.
C12_LastOccurrenceKept ==
  Returned =>
    /\ NoRepeats(outcome.value)
    /\ Range(modules) \subseteq Range(outcome.value)
    /\ Range(outcome.value) = {ModuleOf(tops[i]) : i \in 1..Len(tops)}
    /\ \A i, j \in 1..Len(outcome.value) :
         i < j <=> LastNodeOf(outcome.value[i]) < LastNodeOf(outcome.value[j])

\* a module has two nodes with a node of another module between them
C12_Witness ==
  /\ Returned
  /\ \E i, j, k \in 1..Len(tops) :
       /\ i < j /\ j < k
       /\ ModuleOf(tops[i]) = ModuleOf(tops[k])
       /\ ModuleOf(tops[j]) # ModuleOf(tops[i])

\* C13: runSort takes no step of the cycle check or of the resolution: no
\* step of runSort changes a bindings map, the list of cycles or the map of
\* resolved exports, runSort never raises ExportCycleException, and
\* resolvedExports and exportedSymbols of every module stay as they were.
C13_RunSortOnlySorts ==
  /\ [][mode = "runSort" =>
          /\ bindings' = bindings
          /\ cycles' = cycles
          /\ exports' = exports]_vars
  /\ [](mode = "runSort" =>
          /\ outcome.kind # "ExportCycleException"
          /\ pc \notin {"checked", "resolved", "symbols"}
          /\ FieldsUntouched)

\* runSort has returned on a graph with an edge, and nothing was resolved
C13_Witness ==
  /\ mode = "runSort"
  /\ Returned
  /\ \E n \in DOMAIN nodes : nodes[n].exports # <<>>
  /\ FieldsUntouched

\* the number of times x occurs in the list s
Count(s, x) == Cardinality({i \in 1..Len(s) : s[i] = x})

\* buildGraph has returned
GraphBuilt == pc # "start"

\* every edge of the graph: the members of the nodes' exports lists
GraphEdges == UNION {Range(nodes[n].exports) : n \in DOMAIN nodes}

\* C14: after buildGraph, for every node N, every edge of the graph with
\* exportee N is in N.exportedBy as often as it is in its exporter's exports
\* list, and N.exportedBy holds no other edge; on every input list, lists
\* that repeat a module included.
C14_ExportedByExact ==
  GraphBuilt =>
    \A n \in DOMAIN nodes :
      /\ \A e \in Range(nodes[n].exportedBy) :
           e \in GraphEdges /\ e.exportee = n
      /\ \A e \in {x \in GraphEdges : x.exportee = n} :
           Count(nodes[n].exportedBy, e) = Count(nodes[e.exporter].exports, e)

\* the targets of the export records of the input modules
ExportTargets == {e[2] : e \in ExportEdges}

\* C15: buildGraph returns one node for each input module and one for each
\* export target that is not an input module, each under its own target,
\* and no other node; when no input module has an export record there is
\* one node per input module and every exports list is empty.
C15_OneNodePerTarget ==
  GraphBuilt =>
    /\ DOMAIN nodes = {ResolvedModule(m) : m \in Range(modules)} \cup ExportTargets
    /\ \A n \in DOMAIN nodes : nodes[n].target = n
    /\ ExportTargets = {} =>
         /\ Cardinality(DOMAIN nodes) = Cardinality(Range(modules))
         /\ \A n \in DOMAIN nodes : nodes[n].exports = <<>>

\* the list [A], A exports module B and the type T: nodes for A, B and T
C15_Witness ==
  /\ GraphBuilt
  /\ modules = <<"A">>
  /\ DOMAIN nodes = {ResolvedModule("A"), ResolvedModule("B"), ResolvedType("A", "T")}

\* C16: an edge with an empty symbol list exports every symbol of its
\* exportee: after run, the exporter's record for the exportee lists every
\* name the exportee exposes, and each of those names is a key of the
\* exporter's exportedSymbols.
C16_EmptyListExportsAll ==
  SymbolsResolved =>
    \A m \in Range(modules) : \A i \in 1..Len(EdgesOf(m)) :
      EdgesOf(m)[i].symbols = <<>> =>
        /\ \E r \in RecordsOf(m) :
             /\ r.target = EdgesOf(m)[i].target
             /\ Exposes(r.target) \subseteq Range(r.symbols)
        /\ Exposes(EdgesOf(m)[i].target) \subseteq DOMAIN bindings[m].exportedSymbols

\* topsort has returned its list
Sorted == pc \in {"sorted", "resolved", "symbols"} \/ (pc = "done" /\ tops # <<>>)

\* topsort has thrown: degrees(edge.exporter) or degrees.find(...).get failed
TopsortThrew == Threw("NoSuchElementException") /\ tops = <<>>

\* C17: on a graph without cycle, topsort does not fail on a counter (none
\* is looked up after its node was removed, none is left below zero), and
\* the list it returns holds every node of the graph once, the exportee of
\* every edge before its exporter.
C17_TopsortOrdersNodes ==
  ~HasExportCycle =>
    /\ ~TopsortThrew
    /\ \A n \in DOMAIN degrees : degrees[n] >= 0
    /\ Sorted =>
         /\ NoRepeats(tops)
         /\ Range(tops) = DOMAIN nodes
         /\ \A e \in GraphEdges : Before(tops, e.exportee, e.exporter)

\* C18: runSort on a list without repeated modules whose export graph has
\* a cycle ends by returning a list that holds the input modules.
C18_RunSortReturnsOnCycle ==
  (mode = "runSort" /\ NoRepeats(modules) /\ HasExportCycle /\ pc = "done") =>
    /\ Returned
    /\ Range(modules) \subseteq Range(outcome.value)

\* C19: in the graph of buildGraph no node has two edges to the same
\* exportee under the same alias, and every export record of a module is
\* covered by the edge of its target and alias, whose symbols hold the
\* record's.
C19_DuplicateEdgesMerged ==
  GraphBuilt =>
    /\ \A n \in DOMAIN nodes : \A i, j \in 1..Len(nodes[n].exports) :
         ( /\ nodes[n].exports[i].exportee = nodes[n].exports[j].exportee
           /\ nodes[n].exports[i].exportsAs = nodes[n].exports[j].exportsAs )
           => i = j
    /\ \A m \in Range(modules) : \A d \in Range(DeclaredBy(m)) :
         \E e \in Range(nodes[ResolvedModule(m)].exports) :
           /\ e.exportee = d.target
           /\ e.exportsAs = d.exportedAs
           /\ Range(d.symbols) \subseteq Range(e.symbols)

\* the records of m that export a whole module under an alias: the target
\* is another module and the symbol list is that module's name alone
WholeModuleRecords(m) ==
  {r \in RecordsOf(m) : /\ r.exportedAs # None
                        /\ r.target.kind = "module"
                        /\ r.target.module # m
                        /\ r.symbols = <<r.target.module>>}

\* the names that m has by itself, by an alias, or through a record other
\* than r
NamesWithout(m, r) ==
  OwnNames(m) \cup AliasNames(m)
    \cup UNION {Range(q.symbols) \cap Exposes(q.target) : q \in RecordsOf(m) \ {r}}

\* C20: after run, a record of m that exports a whole module under the
\* alias n gives the entry n -> [.. that module ..] and none of the names the
\* target exposes; a record with an alias that targets m itself, or has
\* another symbol list, gives no entry for its alias.
C20_WholeModuleAlias ==
  SymbolsResolved =>
    \A m \in Range(ModulesIn(tops)) :
      /\ \A r \in WholeModuleRecords(m) :
           /\ Head(r.exportedAs) \in DOMAIN bindings[m].exportedSymbols
           /\ Contains(bindings[m].exportedSymbols[Head(r.exportedAs)], r.target)
           /\ \A n \in Exposes(r.target) \cap DOMAIN bindings[m].exportedSymbols :
                n \in NamesWithout(m, r)
      /\ \A r \in RecordsOf(m) :
           ( /\ r.exportedAs # None
             /\ (r.target.module = m \/ r.symbols # <<r.target.module>>)
             /\ Head(r.exportedAs) \in DOMAIN bindings[m].exportedSymbols )
           => Head(r.exportedAs) \in NamesWithout(m, r)

----------------------------------------------------------------------------
(* Properties of findCycles *)

\* findCycles has returned its list
CyclesFound == mode = "run" /\ pc \notin {"start", "built"}

\* the cycles of the export graph, as chains of distinct nodes
SimpleCycles ==
  {c \in UNION {[1..n -> DOMAIN nodes] : n \in 1..MaxModules} : GenuineCycle(c)}

\* the cycle c shares no node with another cycle of the graph
Disjoint(c) ==
  \A d \in SimpleCycles : Range(d) \cap Range(c) # {} => d \in Rotations(c)

\* the nodes that belong to a reported cycle
Reported(c) == \E i \in 1..Len(cycles) : cycles[i] \in Rotations(c)

\* C21: every cycle of the export graph that shares no node with another
\* cycle is in the list findCycles returns, up to rotation, whatever the order
\* of the nodes and of the edges.
C21_DisjointCyclesAllReported ==
  CyclesFound => \A c \in SimpleCycles : Disjoint(c) => Reported(c)

\* A exports itself, B and C export each other: both cycles are reported
C21_Witness ==
  /\ CyclesFound
  /\ Disjoint(<<ResolvedModule("A")>>)
  /\ Disjoint(<<ResolvedModule("B"), ResolvedModule("C")>>)
  /\ GenuineCycle(<<ResolvedModule("A")>>)
  /\ GenuineCycle(<<ResolvedModule("B"), ResolvedModule("C")>>)
  /\ Len(cycles) = 2

\* C22: no node belongs to two of the cycles findCycles reports.
C22_NodeInOneReportedCycle ==
  CyclesFound =>
    \A i, j \in 1..Len(cycles) :
      Range(cycles[i]) \cap Range(cycles[j]) # {} => i = j

\* two cycles of the graph share a node, and one cycle is reported
C22_Witness ==
  /\ CyclesFound
  /\ Len(cycles) = 1
  /\ \E c, d \in SimpleCycles :
       /\ d \notin Rotations(c)
       /\ Range(c) \cap Range(d) # {}

\* the modules of a chain of nodes
ModulesOfChain(c) == [i \in 1..Len(c) |-> ModuleOf(c[i])]

\* C23: the ExportCycleException of run carries the modules of the cycle
\* that the traversal reported first; go puts each cycle it reports before
\* the ones reported earlier, so that cycle is the last one of the list.
C23_FirstReportedCycleCarried ==
  Threw("ExportCycleException") =>
    outcome.value = ModulesOfChain(cycles[Len(cycles)])

----------------------------------------------------------------------------
(* Properties of the propagation *)

\* C24: after run, the targets of the records of resolvedExports(M) are the
\* nodes that M reaches by one or more export edges, a target whose symbol
\* list came out empty included; a module with one export record whose
\* target exports nothing has one record, for that target.
C24_RecordsAreReachableTargets ==
  ExportsResolved =>
    \A m \in Range(modules) :
      /\ {r.target : r \in RecordsOf(m)} = Reachable(ExportEdges, ResolvedModule(m))
      /\ ( /\ Len(EdgesOf(m)) = 1
           /\ ResolvedOf(EdgesOf(m)[1].target) = {} )
           => /\ Len(bindings[m].resolvedExports) = 1
              /\ bindings[m].resolvedExports[1].target = EdgesOf(m)[1].target

\* B exports [A] from A, A exports [T] of the type T: B has a record for T
\* with no symbol
C24_Witness ==
  /\ ExportsResolved
  /\ DirectTo("B", ResolvedType("A", "T")) = {}
  /\ \E r \in RecordsOf("B") : r.target = ResolvedType("A", "T") /\ r.symbols = <<>>
  /\ \E r \in RecordsOf("B") : r.target = ResolvedModule("A")

\* the union, over the export paths from the node n to the target t, of the
\* intersection of the symbol sets of the edges of the path
RECURSIVE PathSymbols(_, _)
PathSymbols(n, t) ==
  UNION {(IF e.exportee = t THEN Range(e.symbols) ELSE {})
           \cup (Range(e.symbols) \cap PathSymbols(e.exportee, t)) :
         e \in Range(nodes[n].exports)}

\* resolveExports is about to look up the resolved exports of the exportees
\* of the node tops[idx + 1]
LookingUp == mode = "run" /\ pc = "sorted" /\ idx < Len(tops)

\* C25: when resolveExports comes to a node, the resolved exports of each
\* of its exportees are in the map already; and after run the symbols of the
\* record of M for T are, as a set, the union over the export paths from M to
\* T of the intersection of the symbol sets along the path.
C25_MultiHopPropagation ==
  /\ LookingUp =>
       \A e \in Range(nodes[tops[idx + 1]].exports) : e.exportee \in DOMAIN exports
  /\ ExportsResolved =>
       \A m \in Range(modules) : \A r \in RecordsOf(m) :
         Range(r.symbols) = PathSymbols(ResolvedModule(m), r.target)

\* C exports [A, T] from B, B exports [T] from A, A exports [A, T] of the type
\* T: C's record for the type holds T alone
C25_Witness ==
  /\ ExportsResolved
  /\ EdgesOf("C") = <<ExportedModule(ResolvedModule("B"), None, <<"A", "T">>)>>
  /\ EdgesOf("B") = <<ExportedModule(ResolvedModule("A"), None, <<"T">>)>>
  /\ EdgesOf("A") = <<ExportedModule(ResolvedType("A", "T"), None, <<"A", "T">>)>>
  /\ \E r \in RecordsOf("C") :
       r.target = ResolvedType("A", "T") /\ r.symbols = <<"T">>

----------------------------------------------------------------------------
(* Properties of run as a whole *)

\* C26: run ends by returning the module list or by raising
\* ExportCycleException, and in no other way, on every input list.
C26_OnlyCycleErrorHalts ==
  (mode = "run" /\ pc = "done") =>
    outcome.kind \in {"returned", "ExportCycleException"}

\* C27: once buildGraph has returned, no step of findCycles, topsort,
\* resolveExports or resolveExportedSymbols changes the graph: no node is
\* added or removed and no exports or exportedBy list changes, so the graph
\* stays the one buildGraph made of the input.
C27_GraphReadOnly ==
  /\ [][GraphBuilt => nodes' = nodes]_vars
  /\ [](GraphBuilt => nodes = buildGraph(modules, bindings))

\* run has returned, every step has been taken, and the graph has edges
C27_Witness ==
  /\ Returned
  /\ mode = "run"
  /\ \E n \in DOMAIN nodes : nodes[n].exportedBy # <<>>
  /\ \E m \in Modules : bindings[m].exportedSymbols # EmptyMap
  /\ nodes = buildGraph(modules, bindings)

----------------------------------------------------------------------------
(* The actor RuntimeKiller *)
(* One behaviour is the life of one actor. A message sent to the actor is  *)
(* put at the end of its mailbox; messages of different senders arrive in  *)
(* any order. close() of the Truffle context succeeds or throws a          *)
(* non-fatal exception, at every attempt.                                   *)

\* RuntimeKiller.MaxRetries
MaxRetries == 3

\* the actors that send ShutDownRuntime
Requesters == 1..MaxRequesters

Message(msg, sender) == [msg |-> msg, sender |-> sender]

\* no export resolution is going on
ExportsAtRest ==
  /\ mode = "run"
  /\ modules = <<>>
  /\ bindings = [m \in Modules |-> NullBindings]
  /\ invalidated = {}
  /\ pc = "start"
  /\ nodes = EmptyMap
  /\ cycles = <<>>
  /\ degrees = EmptyMap
  /\ result = <<>>
  /\ tops = <<>>
  /\ exports = EmptyMap
  /\ idx = 0
  /\ outcome = [kind |-> "running", value |-> <<>>]

KillerInit ==
  /\ killer = Killer(Requesters)
  /\ handler = HandlerAtRest
  /\ ExportsAtRest

\* the actor takes the first message of its mailbox
Taken(k) ==
  [k EXCEPT !.mailbox = Tail(@), !.received = Append(@, Head(k.mailbox).msg)]

\* truffleContextSupervisor.close() returned: the reply, context.stop(self)
Closed(k, replyTo) ==
  [k EXCEPT !.closes = Append(@, "closed"),
            !.replies = Append(@, Message("RuntimeGracefullyStopped", replyTo)),
            !.behavior = "stopped"]

\* a slip: one retry too many
CloseThrewOnceMore(k, replyTo, retryCount) ==
  IF retryCount <= MaxRetries
    THEN [k EXCEPT !.closes = Append(@, "threw"),
                   !.scheduled = @ \cup {"TryToStopTruffle"},
                   !.behavior = "shuttingDownTruffle",
                   !.replyTo = replyTo,
                   !.retryCount = retryCount + 1]
    ELSE [k EXCEPT !.closes = Append(@, "threw"),
                   !.replies = Append(@, Message("RuntimeNotStopped", replyTo)),
                   !.behavior = "stopped"]

\* close() threw: case NonFatal(ex) => retry later, or give up
CloseThrew(k, replyTo, retryCount) ==
  IF retryCount < MaxRetries
    THEN [k EXCEPT !.closes = Append(@, "threw"),
                   !.scheduled = @ \cup {"TryToStopTruffle"},
                   !.behavior = "shuttingDownTruffle",
                   !.replyTo = replyTo,
                   !.retryCount = retryCount + 1]
    ELSE [k EXCEPT !.closes = Append(@, "threw"),
                   !.replies = Append(@, Message("RuntimeNotStopped", replyTo)),
                   !.behavior = "stopped"]

\* shutDownTruffle(replyTo, retryCount): the states it can leave the actor in
shutDownTruffle(k, replyTo, retryCount) ==
  {Closed(k, replyTo), CloseThrew(k, replyTo, retryCount)}

\* a requester sends ShutDownRuntime
SendShutDownRuntime ==
  /\ \E r \in killer.asking :
       killer' = [killer EXCEPT !.asking = @ \ {r},
                                !.mailbox = Append(@, Message("ShutDownRuntime", r))]
  /\ UNCHANGED <<vars, handler>>

\* the scheduler sends a message whose delay has passed
SchedulerSends ==
  /\ \E m \in killer.scheduled :
       killer' = [killer EXCEPT !.scheduled = @ \ {m},
                                !.mailbox = Append(@, Message(m, "scheduler"))]
  /\ UNCHANGED <<vars, handler>>

\* the runtime connector answers Api.ShutDownRuntimeServer
ConnectorAnswers ==
  /\ killer.connector = "asked"
  /\ killer' = [killer EXCEPT
                  !.connector = "answered",
                  !.mailbox = Append(@, Message("RuntimeServerShutDown",
                                                "runtimeConnector"))]
  /\ UNCHANGED <<vars, handler>>

\* a slip: the Truffle context is closed as soon as ShutDownRuntime arrives
idleClosesAtOnce ==
  /\ killer.behavior = "idle"
  /\ killer.mailbox # <<>>
  /\ Head(killer.mailbox).msg = "ShutDownRuntime"
  /\ killer' \in shutDownTruffle(
                   [Taken(killer) EXCEPT !.connector = "asked"],
                   Head(killer.mailbox).sender, 0)
  /\ UNCHANGED <<vars, handler>>

\* idle(): case ShutDownRuntime
idle ==
  /\ killer.behavior = "idle"
  /\ killer.mailbox # <<>>
  /\ Head(killer.mailbox).msg = "ShutDownRuntime"
  /\ killer' = [Taken(killer) EXCEPT
                  !.connector = "asked",
                  !.scheduled = @ \cup {"ResourceDisposalTimeout"},
                  !.behavior = "shuttingDownRuntimeServer",
                  !.replyTo = Head(killer.mailbox).sender]
  /\ UNCHANGED <<vars, handler>>

\* shuttingDownRuntimeServer: case ResourceDisposalTimeout
shuttingDownRuntimeServerTimeout ==
  /\ killer.behavior = "shuttingDownRuntimeServer"
  /\ killer.mailbox # <<>>
  /\ Head(killer.mailbox).msg = "ResourceDisposalTimeout"
  /\ killer' \in shutDownTruffle(Taken(killer), killer.replyTo, 0)
  /\ UNCHANGED <<vars, handler>>

\* shuttingDownRuntimeServer: case Api.Response(_, Api.RuntimeServerShutDown());
\* cancellable.cancel() takes the timeout back if it was not sent yet
shuttingDownRuntimeServerResponse ==
  /\ killer.behavior = "shuttingDownRuntimeServer"
  /\ killer.mailbox # <<>>
  /\ Head(killer.mailbox).msg = "RuntimeServerShutDown"
  /\ killer' \in shutDownTruffle(
                   [Taken(killer) EXCEPT
                      !.scheduled = @ \ {"ResourceDisposalTimeout"}],
                   killer.replyTo, 0)
  /\ UNCHANGED <<vars, handler>>

\* shuttingDownTruffle: case TryToStopTruffle
shuttingDownTruffle ==
  /\ killer.behavior = "shuttingDownTruffle"
  /\ killer.mailbox # <<>>
  /\ Head(killer.mailbox).msg = "TryToStopTruffle"
  /\ killer' \in shutDownTruffle(Taken(killer), killer.replyTo, killer.retryCount)
  /\ UNCHANGED <<vars, handler>>

\* the messages the behavior b has a case for
KillerHandles(b) ==
  CASE b = "idle" -> {"ShutDownRuntime"}
    [] b = "shuttingDownRuntimeServer" ->
         {"ResourceDisposalTimeout", "RuntimeServerShutDown"}
    [] b = "shuttingDownTruffle" -> {"TryToStopTruffle"}
    [] OTHER -> {}

\* UnhandledLogging: a message no case matches is logged and dropped
killerUnhandled ==
  /\ killer.behavior # "stopped"
  /\ killer.mailbox # <<>>
  /\ Head(killer.mailbox).msg \notin KillerHandles(killer.behavior)
  /\ killer' = [Taken(killer) EXCEPT !.unhandled = Append(@, Head(killer.mailbox))]
  /\ UNCHANGED <<vars, handler>>

\* one step of the actor itself
KillerReceive ==
  \/ idle
  \/ shuttingDownRuntimeServerTimeout
  \/ shuttingDownRuntimeServerResponse
  \/ shuttingDownTruffle
  \/ killerUnhandled

KillerNext ==
  \/ SendShutDownRuntime
  \/ SchedulerSends
  \/ ConnectorAnswers
  \/ idle
  \/ shuttingDownRuntimeServerTimeout
  \/ shuttingDownRuntimeServerResponse
  \/ shuttingDownTruffle
  \/ killerUnhandled

KillerSpec == KillerInit /\ [][KillerNext]_killer

\* the dispatcher runs an actor whose mailbox is not empty and the scheduler
\* sends what it was given once the delay has passed; a requester need not
\* ask and the runtime connector need not answer
KillerLiveSpec ==
  /\ KillerSpec
  /\ WF_killer(KillerReceive)
  /\ WF_killer(SchedulerSends)

\* the replies of the actor that are the message msg
RepliesOf(k, msg) == {i \in 1..Len(k.replies) : k.replies[i].msg = msg}

\* close() was attempted n times in a row from attempt i on, and threw each time
ThrewInARow(k, i, n) ==
  /\ i + n - 1 <= Len(k.closes)
  /\ \A j \in i..(i + n - 1) : k.closes[j] = "threw"

\* the messages the actor has taken so far
Received(k) == {k.received[i] : i \in 1..Len(k.received)}

\* the actor has accepted ShutDownRuntime
ShuttingDown == killer.behavior # "idle"

\* the actor has stopped and its requester has exactly one reply
StoppedWithOneReply ==
  /\ killer.behavior = "stopped"
  /\ Len(killer.replies) = 1
  /\ killer.replies[1].sender = killer.replyTo

\* what holds of the replies and the close attempts at every moment
KillerReplies ==
  /\ Len(killer.replies) <= 1
  /\ Len(killer.closes) <= MaxRetries + 1
  /\ killer.behavior = "stopped" <=> killer.replies # <<>>
  /\ \A i \in 1..Len(killer.replies) : killer.replies[i].sender = killer.replyTo
  /\ RepliesOf(killer, "RuntimeGracefullyStopped") # {}
       <=> \E i \in 1..Len(killer.closes) : killer.closes[i] = "closed"
  /\ RepliesOf(killer, "RuntimeNotStopped") # {}
       <=> \E i \in 1..Len(killer.closes) : ThrewInARow(killer, i, MaxRetries + 1)

\* C28: once RuntimeKiller has accepted ShutDownRuntime its requester
\* eventually has exactly one reply and the actor is stopped; the reply is
\* RuntimeGracefullyStopped exactly when a close succeeded, RuntimeNotStopped
\* exactly when MaxRetries + 1 closes in a row threw, and close is attempted
\* at most MaxRetries + 1 times.
C28_OneReplyThenStopped ==
  /\ []KillerReplies
  /\ ShuttingDown ~> StoppedWithOneReply

\* C28: every attempt threw and the requester was told RuntimeNotStopped
C28_Witness ==
  /\ StoppedWithOneReply
  /\ killer.replies[1].msg = "RuntimeNotStopped"
  /\ ThrewInARow(killer, 1, MaxRetries + 1)

\* the message m comes after the shutdown sequence of k was started by an
\* earlier message of its kind
LaterMessage(k, m) ==
  \/ /\ m = "ShutDownRuntime"
     /\ "ShutDownRuntime" \in Received(k)
  \/ /\ m \in {"RuntimeServerShutDown", "ResourceDisposalTimeout"}
     /\ Received(k) \cap {"RuntimeServerShutDown", "ResourceDisposalTimeout"} # {}

\* the actor takes a message that comes later
TakesLaterMessage ==
  /\ killer.mailbox # <<>>
  /\ killer'.received # killer.received
  /\ LaterMessage(killer, Head(killer.mailbox).msg)

\* nothing was closed before the response or the timeout was taken
ClosedOnlyAfterDisposal ==
  killer.closes # <<>> =>
    Received(killer) \cap {"RuntimeServerShutDown", "ResourceDisposalTimeout"} # {}

\* C29: RuntimeKiller attempts no close before it has taken the
\* RuntimeServerShutDown response or ResourceDisposalTimeout, and a later
\* response, timeout or ShutDownRuntime starts no close attempt, sends no
\* reply and asks the runtime connector nothing.
C29_ShutdownStartedOnce ==
  /\ []ClosedOnlyAfterDisposal
  /\ [][TakesLaterMessage =>
          /\ killer'.closes = killer.closes
          /\ killer'.replies = killer.replies
          /\ killer'.scheduled = killer.scheduled
          /\ killer'.connector = killer.connector]_killer

\* C29: the response and the timeout were both taken, and so was a second
\* ShutDownRuntime, while a close had been attempted
C29_Witness ==
  /\ {"RuntimeServerShutDown", "ResourceDisposalTimeout"} \subseteq Received(killer)
  /\ Len(SelectSeq(killer.received, LAMBDA m : m = "ShutDownRuntime")) = 2
  /\ killer.closes # <<>>
  /\ Len(killer.unhandled) >= 2

----------------------------------------------------------------------------
(* The actor OpenFileHandler *)
(* One behaviour is the life of one handler. The buffer registry answers   *)
(* TextProtocol.OpenFile at most once, with a result or with a failure.    *)

\* the text/openFile requests; request i has the id i and is sent by client i
Requests == 1..MaxRequests

\* OpenFileResult(buffer, capability)
OpenFileResults ==
  [buffer : {[contents |-> "text", version |-> "v1"],
             [contents |-> "", version |-> "v0"]},
   capability : {"None", "CanEdit"}]

\* the failures of the file system
FileSystemFailures == {"FileNotFound", "AccessDenied"}

\* what OpenFileResponse carries: Right(result) or Left(failure)
OpenFileResponses ==
  {<<"Right", r>> : r \in OpenFileResults} \cup
  {<<"Left", f>> : f \in FileSystemFailures}

HandlerMessage(msg, sender, body) == [msg |-> msg, sender |-> sender, body |-> body]

\* buffer.version.toHexString
toHexString(version) == <<"hex", version>>

\* FileSystemFailureMapper.mapFailure
mapFailure(failure) == <<"mapped", failure>>

\* ResponseResult(OpenFile, id, OpenFile.Result(capability, contents, version))
ResponseResult(id, opened) ==
  [msg |-> "ResponseResult",
   id |-> id,
   body |-> [writeCapability |-> opened.capability,
             content |-> opened.buffer.contents,
             currentVersion |-> toHexString(opened.buffer.version)]]

\* ResponseError(Some(id), error)
ResponseError(id, error) == [msg |-> "ResponseError", id |-> id, body |-> error]

HandlerInit ==
  /\ handler = Handler(Requests)
  /\ killer = KillerAtRest
  /\ ExportsAtRest

\* the handler takes the first message of its mailbox
HandlerTaken(h) ==
  [h EXCEPT !.mailbox = Tail(@), !.received = Append(@, Head(h.mailbox))]

\* replyTo ! reply
HandlerReplied(h, reply) ==
  [h EXCEPT !.replies = Append(@, [to |-> h.replyTo, reply |-> reply])]

\* a client sends Request(OpenFile, id, params)
SendOpenFile ==
  /\ \E r \in handler.asking :
       handler' = [handler EXCEPT
                     !.asking = @ \ {r},
                     !.mailbox = Append(@, HandlerMessage("Request", r, r))]
  /\ UNCHANGED <<vars, killer>>

\* the scheduler sends RequestTimeout when the timeout has passed
TimeoutPasses ==
  /\ "RequestTimeout" \in handler.scheduled
  /\ handler' = [handler EXCEPT
                   !.scheduled = @ \ {"RequestTimeout"},
                   !.mailbox = Append(@, HandlerMessage("RequestTimeout",
                                                        "scheduler", <<>>))]
  /\ UNCHANGED <<vars, killer>>

\* the buffer registry answers TextProtocol.OpenFile
RegistryAnswers ==
  /\ handler.registry = "asked"
  /\ \E a \in OpenFileResponses :
       handler' = [handler EXCEPT
                     !.registry = "answered",
                     !.mailbox = Append(@, HandlerMessage("OpenFileResponse",
                                                          "bufferRegistry", a))]
  /\ UNCHANGED <<vars, killer>>

\* requestStage: case Request(OpenFile, id, params)
requestStage ==
  /\ handler.behavior = "requestStage"
  /\ handler.mailbox # <<>>
  /\ Head(handler.mailbox).msg = "Request"
  /\ handler' = [HandlerTaken(handler) EXCEPT
                   !.registry = "asked",
                   !.scheduled = @ \cup {"RequestTimeout"},
                   !.behavior = "responseStage",
                   !.id = Head(handler.mailbox).body,
                   !.replyTo = Head(handler.mailbox).sender]
  /\ UNCHANGED <<vars, killer>>

\* a slip: the handler lives on after the timeout
responseStageTimeoutLivesOn ==
  /\ handler.behavior = "responseStage"
  /\ handler.mailbox # <<>>
  /\ Head(handler.mailbox).msg = "RequestTimeout"
  /\ handler' = HandlerReplied(HandlerTaken(handler),
                               ResponseError(handler.id, "RequestTimeout"))
  /\ UNCHANGED <<vars, killer>>

\* responseStage: case RequestTimeout
responseStageTimeout ==
  /\ handler.behavior = "responseStage"
  /\ handler.mailbox # <<>>
  /\ Head(handler.mailbox).msg = "RequestTimeout"
  /\ handler' = [HandlerReplied(HandlerTaken(handler),
                                ResponseError(handler.id, "RequestTimeout"))
                   EXCEPT !.behavior = "stopped"]
  /\ UNCHANGED <<vars, killer>>

\* responseStage: case OpenFileResponse(Right(OpenFileResult(buffer, capability)))
responseStageResult ==
  /\ handler.behavior = "responseStage"
  /\ handler.mailbox # <<>>
  /\ Head(handler.mailbox).msg = "OpenFileResponse"
  /\ Head(handler.mailbox).body[1] = "Right"
  /\ handler' = [HandlerReplied(HandlerTaken(handler),
                                ResponseResult(handler.id,
                                               Head(handler.mailbox).body[2]))
                   EXCEPT !.scheduled = @ \ {"RequestTimeout"},
                          !.behavior = "stopped"]
  /\ UNCHANGED <<vars, killer>>

\* responseStage: case OpenFileResponse(Left(failure))
responseStageFailure ==
  /\ handler.behavior = "responseStage"
  /\ handler.mailbox # <<>>
  /\ Head(handler.mailbox).msg = "OpenFileResponse"
  /\ Head(handler.mailbox).body[1] = "Left"
  /\ handler' = [HandlerReplied(HandlerTaken(handler),
                                ResponseError(handler.id,
                                              mapFailure(Head(handler.mailbox).body[2])))
                   EXCEPT !.scheduled = @ \ {"RequestTimeout"},
                          !.behavior = "stopped"]
  /\ UNCHANGED <<vars, killer>>

\* the messages the behavior b has a case for
HandlerHandles(b) ==
  CASE b = "requestStage" -> {"Request"}
    [] b = "responseStage" -> {"RequestTimeout", "OpenFileResponse"}
    [] OTHER -> {}

\* UnhandledLogging: a message no case matches is logged and dropped
handlerUnhandled ==
  /\ handler.behavior # "stopped"
  /\ handler.mailbox # <<>>
  /\ Head(handler.mailbox).msg \notin HandlerHandles(handler.behavior)
  /\ handler' = [HandlerTaken(handler) EXCEPT
                   !.unhandled = Append(@, Head(handler.mailbox))]
  /\ UNCHANGED <<vars, killer>>

\* one step of the handler itself
HandlerReceive ==
  \/ requestStage
  \/ responseStageTimeout
  \/ responseStageResult
  \/ responseStageFailure
  \/ handlerUnhandled

HandlerNext ==
  \/ SendOpenFile
  \/ TimeoutPasses
  \/ RegistryAnswers
  \/ requestStage
  \/ responseStageTimeout
  \/ responseStageResult
  \/ responseStageFailure
  \/ handlerUnhandled

HandlerSpec == HandlerInit /\ [][HandlerNext]_handler

\* the dispatcher runs a handler whose mailbox is not empty and the scheduler
\* sends RequestTimeout once the timeout has passed; the buffer registry
\* need not answer
HandlerLiveSpec ==
  /\ HandlerSpec
  /\ WF_handler(HandlerReceive)
  /\ WF_handler(TimeoutPasses)

\* the timeouts and registry responses the handler has taken, in order
Outcomes(h) ==
  SelectSeq(h.received, LAMBDA m : m.msg \in {"RequestTimeout", "OpenFileResponse"})

\* the reply that is due for the message m taken in responseStage(id, ..)
ReplyFor(id, m) ==
  IF m.msg = "RequestTimeout" THEN ResponseError(id, "RequestTimeout")
  ELSE IF m.body[1] = "Right" THEN ResponseResult(id, m.body[2])
  ELSE ResponseError(id, mapFailure(m.body[2]))

\* the handler has accepted a request
InResponseStage == handler.behavior # "requestStage"

\* the handler has stopped and the requester has the one reply that is due
\* for the first of the timeout and the response
StoppedWithTheReply ==
  /\ handler.behavior = "stopped"
  /\ Len(Outcomes(handler)) = 1
  /\ handler.replies =
       <<[to |-> handler.replyTo,
          reply |-> ReplyFor(handler.id, Outcomes(handler)[1])]>>

\* what holds of the replies of the handler at every moment
HandlerReplies ==
  /\ Len(handler.replies) <= 1
  /\ Len(Outcomes(handler)) <= 1
  /\ handler.behavior = "stopped" <=> handler.replies # <<>>
  /\ handler.behavior = "stopped" => StoppedWithTheReply
  /\ InResponseStage =>
       /\ handler.replyTo = handler.received[1].sender
       /\ handler.id = handler.received[1].body

\* C30: the requester of a text/openFile request gets exactly one reply:
\* ResponseResult when a successful OpenFileResponse is taken first, the
\* mapped ResponseError when a failure is taken first, ResponseError
\* (RequestTimeout) when the timeout is taken first; the handler stops with
\* that reply, so whichever of the timeout and the response comes second is
\* never taken.
C30_ExactlyOneReply ==
  /\ []HandlerReplies
  /\ [][handler.replies # <<>> =>
          /\ handler'.replies = handler.replies
          /\ handler'.received = handler.received]_handler
  /\ InResponseStage ~> StoppedWithTheReply

\* C30: the timeout was taken first and answered; the response of the
\* registry came second and stays in the mailbox of the stopped handler
C30_Witness ==
  /\ StoppedWithTheReply
  /\ handler.replies[1].reply = ResponseError(handler.id, "RequestTimeout")
  /\ \E i \in 1..Len(handler.mailbox) : handler.mailbox[i].msg = "OpenFileResponse"

=============================================================================
